---- MODULE Spec2Model ----
(***************************************************************************)
(* Model of the workflow-timing metrics of dev-prod-metrics                *)
(* (src/app/metrics.py and the route handlers of src/app/main.py).         *)
(*                                                                         *)
(* Representation                                                          *)
(*  - A Jira timestamp string "YYYY-MM-DDTHH:MM:SS.ffffff+ZZZZ" is the     *)
(*    record of its fixed-width fields [y, mo, d, hh, mi, tz]; tz is the   *)
(*    sequence of the five character codes of the UTC offset.  Seconds and *)
(*    microseconds are "00.000000" in every string of the model.           *)
(*  - A Python datetime is [y, mo, d, hh, mi, aware, off]: the wall-clock  *)
(*    fields, and the UTC offset in seconds when it is timezone-aware.     *)
(*  - Optional values: None is <<>>, a present value v is <<v>>.           *)
(*  - A Python float is the exact rational <<n, d>> in lowest terms, d > 0.*)
(*  - A period key is the sequence of the character codes of the string.   *)
(***************************************************************************)
EXTENDS Integers, Sequences, FiniteSets, TLC

----------------------------------------------------------------------------
(* Generic helpers *)

None == <<>>
Some(v) == <<v>>
IsNone(o) == o = <<>>
Val(o) == o[1]

Abs(n) == IF n < 0 THEN -n ELSE n

RECURSIVE Gcd(_, _)
Gcd(a, b) == IF b = 0 THEN a ELSE Gcd(b, a % b)

Lcm(a, b) == (a \div Gcd(a, b)) * b

(* lexicographic "<" on sequences of integers: Python's str.__lt__ on the  *)
(* character codes                                                         *)
RECURSIVE LexLess(_, _)
LexLess(s, t) ==
    IF s = <<>> THEN t # <<>>
    ELSE IF t = <<>> THEN FALSE
    ELSE IF Head(s) # Head(t) THEN Head(s) < Head(t)
    ELSE LexLess(Tail(s), Tail(t))

----------------------------------------------------------------------------
(* Floats as exact rationals *)

Rat(n, d) ==
    LET s == IF d < 0 THEN -1 ELSE 1
        g == Gcd(Abs(n), Abs(d))
    IN  <<(s * n) \div g, (s * d) \div g>>

Zero == <<0, 1>>

RatAdd(a, b) ==
    LET l == Lcm(a[2], b[2])
    IN  Rat(a[1] * (l \div a[2]) + b[1] * (l \div b[2]), l)

RatLess(a, b) ==
    LET l == Lcm(a[2], b[2])
    IN  a[1] * (l \div a[2]) < b[1] * (l \div b[2])

RatLeq(a, b) == a = b \/ RatLess(a, b)

(* a / n for a positive integer n *)
RatDivInt(a, n) == Rat(a[1], a[2] * n)

RECURSIVE RatSum(_)
RatSum(s) == IF s = <<>> THEN Zero ELSE RatAdd(Head(s), RatSum(Tail(s)))

(* round(x, 2): nearest multiple of 1/100, ties to the even one *)
Round2(x) ==
    LET num == 100 * x[1]
        q   == num \div x[2]
        r   == num % x[2]
        up  == \/ 2 * r > x[2]
               \/ (2 * r = x[2] /\ q % 2 = 1)
    IN  Rat(IF up THEN q + 1 ELSE q, 100)

----------------------------------------------------------------------------
(* Calendar arithmetic of datetime (proleptic Gregorian ordinals, ISO weeks) *)

IsLeap(y) == y % 4 = 0 /\ (y % 100 # 0 \/ y % 400 = 0)

DaysBeforeYear(y) ==
    LET p == y - 1
    IN  p * 365 + p \div 4 - p \div 100 + p \div 400

DaysBeforeMonthTable == <<0, 31, 59, 90, 120, 151, 181, 212, 243, 273, 304, 334>>

DaysBeforeMonth(y, mo) ==
    DaysBeforeMonthTable[mo] + (IF mo > 2 /\ IsLeap(y) THEN 1 ELSE 0)

Ymd2Ord(y, mo, d) == DaysBeforeYear(y) + DaysBeforeMonth(y, mo) + d

(* ordinal of the Monday that starts ISO week 1 of year y *)
IsoWeek1Monday(y) ==
    LET firstday     == Ymd2Ord(y, 1, 1)
        firstweekday == (firstday + 6) % 7
        monday       == firstday - firstweekday
    IN  IF firstweekday > 3 THEN monday + 7 ELSE monday

(* date.isocalendar(): <<ISO year, ISO week>> *)
IsoCalendar(y, mo, d) ==
    LET today == Ymd2Ord(y, mo, d)
        week  == (today - IsoWeek1Monday(y)) \div 7
    IN  IF week < 0
        THEN <<y - 1, ((today - IsoWeek1Monday(y - 1)) \div 7) + 1>>
        ELSE IF week >= 52 /\ today >= IsoWeek1Monday(y + 1)
        THEN <<y + 1, 1>>
        ELSE <<y, week + 1>>

----------------------------------------------------------------------------
(* Timestamps *)

Plus0000 == <<43, 48, 48, 48, 48>>     \* "+0000"
Plus0100 == <<43, 48, 49, 48, 48>>     \* "+0100"

(* the value of the directive %z on a five character offset *)
ParseOffset(tz) ==
    LET digit(i) == tz[i] - 48
        secs == (digit(2) * 10 + digit(3)) * 3600 + (digit(4) * 10 + digit(5)) * 60
    IN  IF tz[1] = 45 THEN -secs ELSE secs

(* the characters of the string, as far as two strings of the model differ:  *)
(* every field is zero-padded to a fixed width, so comparing the field       *)
(* values in order compares the strings                                      *)
StrKey(ts) == <<ts.y, ts.mo, ts.d, ts.hh, ts.mi>> \o ts.tz

StrLess(a, b) == LexLess(StrKey(a), StrKey(b))

parse_jira_datetime(ts) ==
    [y |-> ts.y, mo |-> ts.mo, d |-> ts.d, hh |-> ts.hh, mi |-> ts.mi,
     aware |-> TRUE, off |-> ParseOffset(ts.tz)]

(* days are counted from 2022-12-01 so that seconds stay small *)
EpochOrd == Ymd2Ord(2022, 12, 1)

(* seconds since the epoch of the instant an aware datetime denotes *)
Instant(dt) ==
    (Ymd2Ord(dt.y, dt.mo, dt.d) - EpochOrd) * 86400 + dt.hh * 3600 + dt.mi * 60 - dt.off

(* (a - b).total_seconds() for aware datetimes *)
TotalSeconds(a, b) == Instant(a) - Instant(b)

DtLess(a, b) == Instant(a) < Instant(b)

----------------------------------------------------------------------------
(* Status names *)

(* str.strip() on the status names of the model *)
Strip(s) == IF s = " In review" THEN "In review" ELSE s

(* str.lower() on the status names of the model *)
Lower(s) ==
    CASE s = "In Review"   -> "in review"
      [] s = "In review"   -> "in review"
      [] s = " In review"  -> " in review"
      [] s = "In Progress" -> "in progress"
      [] s = "To Do"       -> "to do"
      [] s = "Done"        -> "done"
      [] OTHER             -> s

is_in_review(status) == status # "" /\ Lower(Strip(status)) = "in review"

----------------------------------------------------------------------------
(* The accumulators of calculate_time_in_progress and calculate_time_in_review *)

(* sorted(histories, key=lambda h: h["created"]): stable, by the string *)
RECURSIVE InsertByCreated(_, _)
InsertByCreated(h, s) ==
    IF s = <<>> THEN <<h>>
    ELSE IF StrLess(h.created, Head(s).created) THEN <<h>> \o s
    ELSE <<Head(s)>> \o InsertByCreated(h, Tail(s))

RECURSIVE SortedByCreated(_)
SortedByCreated(hs) ==
    IF hs = <<>> THEN <<>>
    ELSE InsertByCreated(hs[Len(hs)], SortedByCreated(SubSeq(hs, 1, Len(hs) - 1)))

(* ProgressItem without the test "in_progress_start is None": every entry    *)
(* restarts the interval                                                     *)
ProgressItemRestart(st, item, history_created) ==
    IF item.field # "status" THEN st
    ELSE IF item.toString = "In Progress"
    THEN [st EXCEPT !.start = Some(history_created)]
    ELSE IF item.fromString = "In Progress" /\ ~IsNone(st.start)
    THEN [start |-> None,
          total |-> st.total + TotalSeconds(history_created, Val(st.start))]
    ELSE st

(* ProgressItem without the test of the field: an item of any field counts *)
ProgressItemAnyField(st, item, history_created) ==
    IF item.toString = "In Progress"
    THEN IF IsNone(st.start)
         THEN [st EXCEPT !.start = Some(history_created)]
         ELSE st
    ELSE IF item.fromString = "In Progress" /\ ~IsNone(st.start)
    THEN [start |-> None,
          total |-> st.total + TotalSeconds(history_created, Val(st.start))]
    ELSE st

(* one item of the loop of calculate_time_in_progress; st = [start, total] *)
ProgressItem(st, item, history_created) ==
    IF item.field # "status" THEN st
    ELSE IF item.toString = "In Progress"
    THEN IF IsNone(st.start)
         THEN [st EXCEPT !.start = Some(history_created)]
         ELSE st
    ELSE IF item.fromString = "In Progress" /\ ~IsNone(st.start)
    THEN [start |-> None,
          total |-> st.total + TotalSeconds(history_created, Val(st.start))]
    ELSE st

(* one item of the loop of calculate_time_in_review *)
ReviewItem(st, item, history_created) ==
    IF item.field # "status" THEN st
    ELSE IF is_in_review(item.toString)
    THEN IF IsNone(st.start)
         THEN [st EXCEPT !.start = Some(history_created)]
         ELSE st
    ELSE IF is_in_review(item.fromString) /\ ~IsNone(st.start)
    THEN [start |-> None,
          total |-> st.total + TotalSeconds(history_created, Val(st.start))]
    ELSE st

RECURSIVE ProgressItems(_, _, _)
ProgressItems(st, items, history_created) ==
    IF items = <<>> THEN st
    ELSE ProgressItems(ProgressItem(st, Head(items), history_created),
                       Tail(items), history_created)

RECURSIVE ReviewItems(_, _, _)
ReviewItems(st, items, history_created) ==
    IF items = <<>> THEN st
    ELSE ReviewItems(ReviewItem(st, Head(items), history_created),
                     Tail(items), history_created)

(* one iteration of "for history in histories" *)
ProgressHistory(st, history) ==
    ProgressItems(st, history.items, parse_jira_datetime(history.created))

ReviewHistory(st, history) ==
    ReviewItems(st, history.items, parse_jira_datetime(history.created))

AccInit == [start |-> None, total |-> 0]

(* "Still in progress?": the open interval runs to the evaluation instant *)
ProgressTail(st, now) ==
    IF ~IsNone(st.start) THEN st.total + (now - Instant(Val(st.start))) ELSE st.total

ReviewTail(st, now) ==
    IF ~IsNone(st.start) THEN st.total + (now - Instant(Val(st.start))) ELSE st.total

(* return total_time_seconds / 3600 *)
ProgressResult(total) == Rat(total, 3600)

(* hours from 3600 seconds on, minutes below *)
ReviewResult(total) == IF total >= 3600 THEN Rat(total, 3600) ELSE Rat(total, 60)

RECURSIVE ProgressLoop(_, _)
ProgressLoop(st, hs) ==
    IF hs = <<>> THEN st ELSE ProgressLoop(ProgressHistory(st, Head(hs)), Tail(hs))

RECURSIVE ReviewLoop(_, _)
ReviewLoop(st, hs) ==
    IF hs = <<>> THEN st ELSE ReviewLoop(ReviewHistory(st, Head(hs)), Tail(hs))

calculate_time_in_progress(iss, now) ==
    ProgressResult(ProgressTail(ProgressLoop(AccInit, SortedByCreated(iss.histories)), now))

calculate_time_in_review(iss, now) ==
    ReviewResult(ReviewTail(ReviewLoop(AccInit, SortedByCreated(iss.histories)), now))

----------------------------------------------------------------------------
(* Lead time and completion date *)

(* LeadItems without the test of the field name *)
RECURSIVE LeadItemsAnyField(_)
LeadItemsAnyField(items) ==
    IF items = <<>> THEN FALSE
    ELSE IF Head(items).toString = "Done" THEN TRUE
    ELSE LeadItemsAnyField(Tail(items))

(* the inner loop of calculate_lead_time: whether it leaves by break *)
RECURSIVE LeadItems(_)
LeadItems(items) ==
    IF items = <<>> THEN FALSE
    ELSE IF Head(items).field = "status" /\ Head(items).toString = "Done" THEN TRUE
    ELSE LeadItems(Tail(items))

(* done_date after the outer loop of calculate_lead_time *)
RECURSIVE LeadDoneDate(_)
LeadDoneDate(hs) ==
    IF hs = <<>> THEN None
    ELSE IF LeadItems(Head(hs).items) THEN Some(parse_jira_datetime(Head(hs).created))
    ELSE LeadDoneDate(Tail(hs))

calculate_lead_time(iss) ==
    LET created_date == parse_jira_datetime(iss.created)
        done_date    == LeadDoneDate(iss.histories)
    IN  IF IsNone(done_date) THEN None
        ELSE Some(Rat(TotalSeconds(Val(done_date), created_date), 3600))

(* CompletionItems without the test of the field *)
RECURSIVE CompletionItemsAnyField(_)
CompletionItemsAnyField(items) ==
    IF items = <<>> THEN FALSE
    ELSE IF Head(items).toString = "Done" THEN TRUE
    ELSE CompletionItemsAnyField(Tail(items))

(* the inner loop of get_issue_completion_date: whether it returns *)
RECURSIVE CompletionItems(_)
CompletionItems(items) ==
    IF items = <<>> THEN FALSE
    ELSE IF Head(items).field = "status" /\ Head(items).toString = "Done" THEN TRUE
    ELSE CompletionItems(Tail(items))

RECURSIVE get_issue_completion_date_from(_)
get_issue_completion_date_from(hs) ==
    IF hs = <<>> THEN None
    ELSE IF CompletionItems(Head(hs).items)
    THEN Some(parse_jira_datetime(Head(hs).created))
    ELSE get_issue_completion_date_from(Tail(hs))

get_issue_completion_date(iss) == get_issue_completion_date_from(iss.histories)

get_issue_creation_date(iss) == parse_jira_datetime(iss.created)

----------------------------------------------------------------------------
(* Period keys *)

(* str(n) for n >= 0 *)
RECURSIVE DecStr(_)
DecStr(n) == IF n < 10 THEN <<48 + n>> ELSE DecStr(n \div 10) \o <<48 + (n % 10)>>

(* a string of digits zero-padded to w characters *)
PaddedTo(str, w) == [i \in 1..(w - Len(str)) |-> 48] \o str

Pad(n, w) == PaddedTo(DecStr(n), w)

Dash == <<45>>
DashW == <<45, 87>>

format_period_key(date, period_type) ==
    CASE period_type = "yearly"  -> Pad(date.y, 4)
      [] period_type = "monthly" -> Pad(date.y, 4) \o Dash \o Pad(date.mo, 2)
      [] period_type = "weekly"  ->
            LET iso == IsoCalendar(date.y, date.mo, date.d)
            IN  DecStr(iso[1]) \o DashW \o Pad(iso[2], 2)
      [] period_type = "daily"   ->
            Pad(date.y, 4) \o Dash \o Pad(date.mo, 2) \o Dash \o Pad(date.d, 2)
      [] OTHER -> <<>>

----------------------------------------------------------------------------
(* Averages *)

(* the truth value Python gives an optional float: neither None nor 0 *)
Truthy(v) == ~IsNone(v) /\ Val(v) # Zero

(* ValidValues with the test "is not None": zeros are kept *)
ValidValuesNotNone(metrics_list, field) ==
    LET kept == SelectSeq(metrics_list, LAMBDA m : ~IsNone(m[field]))
    IN  [i \in 1..Len(kept) |-> Val(kept[i][field])]

(* [m[field] for m in metrics_list if m.get(field)] *)
ValidValues(metrics_list, field) ==
    LET kept == SelectSeq(metrics_list, LAMBDA m : Truthy(m[field]))
    IN  [i \in 1..Len(kept) |-> Val(kept[i][field])]

(* sum(valid) / len(valid) if valid else 0 *)
MeanOrZero(valid) ==
    IF valid # <<>> THEN RatDivInt(RatSum(valid), Len(valid)) ELSE Zero

Averages(count, avg_progress, avg_review, avg_lead) ==
    [ticket_count |-> count,
     avg_time_in_progress_hours |-> Round2(avg_progress),
     avg_time_in_review_hours   |-> Round2(avg_review),
     avg_lead_time_hours        |-> Round2(avg_lead),
     avg_time_in_progress_days  |-> Round2(RatDivInt(avg_progress, 24)),
     avg_time_in_review_days    |-> Round2(RatDivInt(avg_review, 24)),
     avg_lead_time_days         |-> Round2(RatDivInt(avg_lead, 24))]

calculate_averages(metrics_list) ==
    IF metrics_list = <<>>
    THEN [ticket_count |-> 0,
          avg_time_in_progress_hours |-> Zero, avg_time_in_review_hours |-> Zero,
          avg_lead_time_hours |-> Zero, avg_time_in_progress_days |-> Zero,
          avg_time_in_review_days |-> Zero, avg_lead_time_days |-> Zero]
    ELSE Averages(Len(metrics_list),
                  MeanOrZero(ValidValues(metrics_list, "time_in_progress_hours")),
                  MeanOrZero(ValidValues(metrics_list, "time_in_review_hours")),
                  MeanOrZero(ValidValues(metrics_list, "lead_time_hours")))

----------------------------------------------------------------------------
(* aggregate_metrics_by_period *)

(* a naive datetime is taken as UTC; None stays None *)
ensure_timezone_aware(dt) ==
    IF IsNone(dt) THEN None
    ELSE IF ~Val(dt).aware THEN Some([Val(dt) EXCEPT !.aware = TRUE, !.off = 0])
    ELSE dt

PeriodTypes == <<"yearly", "monthly", "weekly", "daily">>

(* defaultdict(list)[key].append(m) *)
AppendTo(bucket, key, m) ==
    IF key \in DOMAIN bucket
    THEN [bucket EXCEPT ![key] = Append(@, m)]
    ELSE [k \in DOMAIN bucket \cup {key} |-> IF k = key THEN <<m>> ELSE bucket[k]]

EmptyBuckets == [p \in 1..4 |-> [k \in {} |-> <<>>]]

(* OutsideRange with the bounds themselves excluded *)
OutsideRangeOpen(completion_date, start_date, end_date) ==
    \/ (~IsNone(start_date) /\ ~DtLess(Val(start_date), completion_date))
    \/ (~IsNone(end_date) /\ ~DtLess(completion_date, Val(end_date)))

(* the date filter of the loop: whether the issue is skipped *)
OutsideRange(completion_date, start_date, end_date) ==
    \/ (~IsNone(start_date) /\ DtLess(completion_date, Val(start_date)))
    \/ (~IsNone(end_date) /\ DtLess(Val(end_date), completion_date))

(* AggregateIssue with the keys taken from the creation date *)
AggregateIssueByCreation(buckets, iss, start_date, end_date, now) ==
    LET lead_time       == calculate_lead_time(iss)
        completion_date == get_issue_completion_date(iss)
        metrics_dict    == [ticket_key |-> iss.key,
                            time_in_progress_hours |->
                                Some(calculate_time_in_progress(iss, now)),
                            time_in_review_hours |->
                                Some(calculate_time_in_review(iss, now)),
                            lead_time_hours |-> lead_time]
    IN  IF IsNone(lead_time) \/ IsNone(completion_date) THEN buckets
        ELSE IF OutsideRange(Val(completion_date), start_date, end_date) THEN buckets
        ELSE [p \in 1..4 |->
                AppendTo(buckets[p],
                         format_period_key(get_issue_creation_date(iss), PeriodTypes[p]),
                         metrics_dict)]

(* one iteration of "for issue in issues"; buckets[p] is the dictionary of   *)
(* PeriodTypes[p]; start_date and end_date are timezone-aware or None        *)
AggregateIssue(buckets, iss, start_date, end_date, now) ==
    LET time_in_progress == calculate_time_in_progress(iss, now)
        time_in_review   == calculate_time_in_review(iss, now)
        lead_time        == calculate_lead_time(iss)
        completion_date  == get_issue_completion_date(iss)
        metrics_dict     == [ticket_key |-> iss.key,
                             time_in_progress_hours |-> Some(time_in_progress),
                             time_in_review_hours   |-> Some(time_in_review),
                             lead_time_hours        |-> lead_time]
    IN  IF IsNone(lead_time) THEN buckets
        ELSE IF IsNone(completion_date) THEN buckets
        ELSE IF OutsideRange(Val(completion_date), start_date, end_date) THEN buckets
        ELSE [p \in 1..4 |->
                AppendTo(buckets[p],
                         format_period_key(Val(completion_date), PeriodTypes[p]),
                         metrics_dict)]

(* SortedKeys in descending order *)
RECURSIVE SortedKeysDescending(_)
SortedKeysDescending(keys) ==
    IF keys = {} THEN <<>>
    ELSE LET most == CHOOSE k \in keys : \A j \in keys : j = k \/ LexLess(j, k)
         IN  <<most>> \o SortedKeysDescending(keys \ {most})

(* sorted(d.items()): the keys in ascending order of the strings *)
RECURSIVE SortedKeys(_)
SortedKeys(keys) ==
    IF keys = {} THEN <<>>
    ELSE LET least == CHOOSE k \in keys : \A j \in keys : j = k \/ LexLess(k, j)
         IN  <<least>> \o SortedKeys(keys \ {least})

(* the result list of one dictionary *)
PeriodResults(bucket) ==
    LET keys == SortedKeys(DOMAIN bucket)
    IN  [i \in 1..Len(keys) |->
            [period |-> keys[i], averages |-> calculate_averages(bucket[keys[i]])]]

AggregateResults(buckets) ==
    [yearly  |-> PeriodResults(buckets[1]),
     monthly |-> PeriodResults(buckets[2]),
     weekly  |-> PeriodResults(buckets[3]),
     daily   |-> PeriodResults(buckets[4])]

RECURSIVE AggregateLoop(_, _, _, _, _)
AggregateLoop(buckets, iss_list, start_date, end_date, now) ==
    IF iss_list = <<>> THEN buckets
    ELSE AggregateLoop(AggregateIssue(buckets, Head(iss_list), start_date, end_date, now),
                       Tail(iss_list), start_date, end_date, now)

aggregate_metrics_by_period(iss_list, start_date, end_date, now) ==
    AggregateResults(AggregateLoop(EmptyBuckets, iss_list,
                                   ensure_timezone_aware(start_date),
                                   ensure_timezone_aware(end_date), now))

----------------------------------------------------------------------------
(* The project handlers of main.py *)

(* TicketMetrics(...).dict() of one issue *)
TicketMetrics(iss, now) ==
    [ticket_key |-> iss.key,
     time_in_progress_hours |-> Some(calculate_time_in_progress(iss, now)),
     time_in_review_hours   |-> Some(calculate_time_in_review(iss, now)),
     lead_time_hours        |-> calculate_lead_time(iss)]

(* sum(r[field] for r in results if r[field]) / len(results) *)
SumOverAll(rs, field) == RatDivInt(RatSum(ValidValues(rs, field)), Len(rs))

(* the summary of get_project_metrics *)
ProjectSummary(rs) ==
    IF rs # <<>>
    THEN Averages(Len(rs),
                  SumOverAll(rs, "time_in_progress_hours"),
                  SumOverAll(rs, "time_in_review_hours"),
                  SumOverAll(rs, "lead_time_hours"))
    ELSE Averages(Len(rs), Zero, Zero, Zero)

(* the summary statistics of get_filtered_project_metrics *)
FilteredSummary(rs) ==
    IF rs # <<>>
    THEN Averages(Len(rs),
                  MeanOrZero(ValidValues(rs, "time_in_progress_hours")),
                  MeanOrZero(ValidValues(rs, "time_in_review_hours")),
                  MeanOrZero(ValidValues(rs, "lead_time_hours")))
    ELSE Averages(Len(rs), Zero, Zero, Zero)

PeriodParams == {"yearly", "monthly", "weekly", "daily", "all"}

----------------------------------------------------------------------------
(* Inputs *)

MaxHist == 3            \* history entries of an issue

SeqsUpTo(S, n) == UNION {[1..k -> S] : k \in 0..n}

MkStamp(y, mo, d, hh, mi, tz) ==
    [y |-> y, mo |-> mo, d |-> d, hh |-> hh, mi |-> mi, tz |-> tz]

Offsets == {Plus0000, Plus0100}

(* wall-clock times <<hh, mi>> of the history entries of one issue *)
Clock == {<<0, 0>>, <<0, 20>>}

Stamps == {MkStamp(2023, 1, 1, c[1], c[2], tz) : c \in Clock, tz \in Offsets}

CreatedStamp == MkStamp(2022, 12, 31, 22, 40, Plus0000)

ItemStart  == [field |-> "status", fromString |-> "To Do",       toString |-> "In Progress"]
ItemReview == [field |-> "status", fromString |-> "In Progress", toString |-> " In review"]
ItemDone   == [field |-> "status", fromString |-> "In Review",   toString |-> "Done"]
ItemLabel  == [field |-> "labels", fromString |-> "In Progress", toString |-> "Done"]

Items == {ItemStart, ItemReview, ItemDone, ItemLabel}

Histories == {[created |-> t, items |-> <<i>>] : t \in Stamps, i \in Items}

Issues ==
    {[key |-> 1, created |-> CreatedStamp, histories |-> hs] :
        hs \in SeqsUpTo(Histories, MaxHist)}

(* readings of datetime.now(): 2023-01-01 01:00 and 02:20 UTC *)
NowSet ==
    {Instant(parse_jira_datetime(MkStamp(2023, 1, 1, 1, 0, Plus0000))),
     Instant(parse_jira_datetime(MkStamp(2023, 1, 1, 2, 20, Plus0000)))}

(* Issues of a project; the key n stands for the string "DP-<n>" *)

MaxIssues == 2          \* issues of a search result, records of a metrics list

History(t, item) == [created |-> t, items |-> <<item>>]

ProjectCreated == MkStamp(2022, 12, 29, 9, 0, Plus0000)
StartedAt      == MkStamp(2022, 12, 30, 10, 0, Plus0000)
ReviewedAt     == MkStamp(2022, 12, 30, 12, 0, Plus0000)

(* completion timestamps around the turn of the year: Saturday 23:30 UTC,    *)
(* Sunday 00:00 at +0100 (half an hour earlier), Monday, Sunday 00:00 UTC    *)
DoneStamps ==
    <<MkStamp(2022, 12, 31, 23, 30, Plus0000),
      MkStamp(2023, 1, 1, 0, 0, Plus0100),
      MkStamp(2023, 1, 2, 10, 0, Plus0000),
      MkStamp(2023, 1, 1, 0, 0, Plus0000)>>

ProjectIssue(n, hs) == [key |-> n, created |-> ProjectCreated, histories |-> hs]

(* worked on, reviewed and done *)
FullIssue(n) ==
    ProjectIssue(n, <<History(StartedAt, ItemStart), History(ReviewedAt, ItemReview),
                      History(DoneStamps[n], ItemDone)>>)

(* closed without work *)
DirectIssue(n) == ProjectIssue(4 + n, <<History(DoneStamps[n], ItemDone)>>)

(* still in progress, still in review *)
OpenIssue == ProjectIssue(9, <<History(StartedAt, ItemStart)>>)
ReviewingIssue ==
    ProjectIssue(10, <<History(StartedAt, ItemStart), History(ReviewedAt, ItemReview)>>)

(* done, reopened and done again; the log lists the later "Done" first *)
RedoneIssue ==
    ProjectIssue(11, <<History(DoneStamps[3], ItemDone), History(DoneStamps[1], ItemDone)>>)

(* in progress, the label "In Progress" replaced by the label "Done" *)
RelabelledIssue ==
    ProjectIssue(12, <<History(StartedAt, ItemStart), History(ReviewedAt, ItemLabel)>>)

IssuePool ==
    {FullIssue(n) : n \in 1..4} \cup {DirectIssue(n) : n \in 1..4}
        \cup {OpenIssue, ReviewingIssue, RedoneIssue, RelabelledIssue}

(* search results: every issue once *)
IssueLists ==
    {l \in SeqsUpTo(IssuePool, MaxIssues) :
        \A i, j \in 1..Len(l) : i # j => l[i].key # l[j].key}

MkDate(y, mo, d, hh, mi, aware, off) ==
    [y |-> y, mo |-> mo, d |-> d, hh |-> hh, mi |-> mi, aware |-> aware, off |-> off]

(* start and end filters: absent, naive, aware *)
StartArgs ==
    {None, Some(MkDate(2023, 1, 1, 0, 0, FALSE, 0)), Some(MkDate(2023, 1, 1, 0, 0, TRUE, 3600))}
EndArgs ==
    {None, Some(MkDate(2023, 1, 1, 0, 0, FALSE, 0)), Some(MkDate(2022, 12, 31, 23, 30, TRUE, 0))}

(* per-issue metrics handed to calculate_averages: progress and review are   *)
(* floats (a review time below one hour is in minutes), lead time may be None *)
MetricDicts ==
    {[ticket_key |-> 0, time_in_progress_hours |-> Some(a),
      time_in_review_hours |-> Some(b), lead_time_hours |-> c] :
        a \in {Zero, Rat(1, 3), Rat(2, 1)},
        b \in {Zero, Rat(20, 1), Rat(3, 2)},
        c \in {None, Some(Rat(1, 3)), Some(Rat(5, 3))}}

MetricLists == SeqsUpTo(MetricDicts, MaxIssues)

----------------------------------------------------------------------------
(* get_ticket_metrics: the three calculations on one issue *)

VARIABLES
    now,                    \* the last reading of datetime.now()
    \* get_ticket_metrics
    issue,                  \* issue_data, as the client returned it
    pc,                     \* where the handler is
    histories,              \* the sorted list a calculation iterates over
    idx,                    \* index of the next history of that list
    in_progress_start,
    in_review_start,
    total_time_seconds,
    ticket,                 \* the TicketMetrics under construction
    \* the arguments of aggregate_metrics_by_period and of the project handlers
    issues,
    arg_start,
    arg_end,
    \* aggregate_metrics_by_period
    agg_pc,
    agg_i,                  \* index of the next issue of the loop
    start_date,
    end_date,
    yearly_metrics,
    monthly_metrics,
    weekly_metrics,
    daily_metrics,
    time_metrics,           \* the returned dictionary, None before the return
    \* calculate_averages
    metrics_list,
    averages,
    \* get_project_metrics and get_filtered_project_metrics
    handler,
    period,
    api_pc,
    results,
    summary,
    response

ticketVars == <<issue, pc, histories, idx, in_progress_start, in_review_start,
                total_time_seconds, ticket>>
argVars == <<issues, arg_start, arg_end>>
aggVars == <<agg_pc, agg_i, start_date, end_date, yearly_metrics, monthly_metrics,
             weekly_metrics, daily_metrics, time_metrics>>
avgVars == <<metrics_list, averages>>
apiVars == <<handler, period, api_pc, results, summary, response>>

vars == <<now, ticketVars, argVars, aggVars, avgVars, apiVars>>

otherThanTicket == <<argVars, aggVars, avgVars, apiVars>>

FirstNow == CHOOSE n \in NowSet : \A m \in NowSet : n <= m

NoBucket == [k \in {} |-> <<>>]

(* the variables of an operation that is not running *)
TicketIdle ==
    /\ issue = None /\ pc = "idle" /\ histories = <<>> /\ idx = 0
    /\ in_progress_start = None /\ in_review_start = None
    /\ total_time_seconds = 0 /\ ticket = None
ArgsIdle == issues = <<>> /\ arg_start = None /\ arg_end = None
AggIdle ==
    /\ agg_pc = "idle" /\ agg_i = 0 /\ start_date = None /\ end_date = None
    /\ yearly_metrics = NoBucket /\ monthly_metrics = NoBucket
    /\ weekly_metrics = NoBucket /\ daily_metrics = NoBucket
    /\ time_metrics = None
AvgIdle == metrics_list = <<>> /\ averages = None
ApiIdle ==
    /\ handler = "none" /\ period = "all" /\ api_pc = "idle" /\ results = <<>>
    /\ summary = None /\ response = None

NoTicket ==
    [time_in_progress_hours |-> None, time_in_review_hours |-> None,
     lead_time_hours |-> None]

Init ==
    /\ ArgsIdle /\ AggIdle /\ AvgIdle /\ ApiIdle
    /\ issue \in Issues
    /\ now = FirstNow
    /\ pc = "call"
    /\ histories = <<>>
    /\ idx = 0
    /\ in_progress_start = None
    /\ in_review_start = None
    /\ total_time_seconds = 0
    /\ ticket = NoTicket

(* calculate_time_in_progress, up to the loop *)
ProgressSort ==
    /\ UNCHANGED otherThanTicket
    /\ pc = "call"
    /\ histories' = SortedByCreated(issue.histories)
    /\ idx' = 1
    /\ in_progress_start' = None
    /\ total_time_seconds' = 0
    /\ pc' = "progress"
    /\ UNCHANGED <<issue, now, in_review_start, ticket>>

(* one history of the loop *)
ProgressStep ==
    /\ UNCHANGED otherThanTicket
    /\ pc = "progress"
    /\ idx <= Len(histories)
    /\ LET st == ProgressHistory([start |-> in_progress_start,
                                  total |-> total_time_seconds], histories[idx])
       IN  /\ in_progress_start' = st.start
           /\ total_time_seconds' = st.total
    /\ idx' = idx + 1
    /\ UNCHANGED <<issue, now, pc, histories, in_review_start, ticket>>

(* after the loop: the open interval, and the return *)
ProgressReturn ==
    /\ UNCHANGED otherThanTicket
    /\ pc = "progress"
    /\ idx > Len(histories)
    /\ \E n \in NowSet :
        /\ n >= now
        /\ now' = IF IsNone(in_progress_start) THEN now ELSE n
        /\ ticket' = [ticket EXCEPT !.time_in_progress_hours =
              Some(ProgressResult(ProgressTail([start |-> in_progress_start,
                                                total |-> total_time_seconds], n)))]
    /\ pc' = "review_call"
    /\ in_progress_start' = None
    /\ total_time_seconds' = 0
    /\ histories' = <<>>
    /\ idx' = 0
    /\ UNCHANGED <<issue, in_review_start>>

ReviewSort ==
    /\ UNCHANGED otherThanTicket
    /\ pc = "review_call"
    /\ histories' = SortedByCreated(issue.histories)
    /\ idx' = 1
    /\ in_review_start' = None
    /\ total_time_seconds' = 0
    /\ pc' = "review"
    /\ UNCHANGED <<issue, now, in_progress_start, ticket>>

ReviewStep ==
    /\ UNCHANGED otherThanTicket
    /\ pc = "review"
    /\ idx <= Len(histories)
    /\ LET st == ReviewHistory([start |-> in_review_start,
                                total |-> total_time_seconds], histories[idx])
       IN  /\ in_review_start' = st.start
           /\ total_time_seconds' = st.total
    /\ idx' = idx + 1
    /\ UNCHANGED <<issue, now, pc, histories, in_progress_start, ticket>>

ReviewReturn ==
    /\ UNCHANGED otherThanTicket
    /\ pc = "review"
    /\ idx > Len(histories)
    /\ \E n \in NowSet :
        /\ n >= now
        /\ now' = IF IsNone(in_review_start) THEN now ELSE n
        /\ ticket' = [ticket EXCEPT !.time_in_review_hours =
              Some(ReviewResult(ReviewTail([start |-> in_review_start,
                                            total |-> total_time_seconds], n)))]
    /\ pc' = "lead"
    /\ in_review_start' = None
    /\ total_time_seconds' = 0
    /\ histories' = <<>>
    /\ idx' = 0
    /\ UNCHANGED <<issue, in_progress_start>>

LeadTime ==
    /\ UNCHANGED otherThanTicket
    /\ pc = "lead"
    /\ ticket' = [ticket EXCEPT !.lead_time_hours = calculate_lead_time(issue)]
    /\ pc' = "done"
    /\ UNCHANGED <<issue, now, histories, idx, in_progress_start, in_review_start,
                   total_time_seconds>>

Next ==
    \/ ProgressSort
    \/ ProgressStep
    \/ ProgressReturn
    \/ ReviewSort
    \/ ReviewStep
    \/ ReviewReturn
    \/ LeadTime

Spec == Init /\ [][Next]_vars

----------------------------------------------------------------------------
(* aggregate_metrics_by_period, called on a search result *)

otherThanAgg == <<ticketVars, avgVars, apiVars>>

InitAgg ==
    /\ TicketIdle /\ AvgIdle /\ ApiIdle
    /\ now = FirstNow
    /\ issues \in IssueLists
    /\ arg_start \in StartArgs
    /\ arg_end \in EndArgs
    /\ agg_pc = "call"
    /\ agg_i = 0
    /\ start_date = None
    /\ end_date = None
    /\ yearly_metrics = NoBucket
    /\ monthly_metrics = NoBucket
    /\ weekly_metrics = NoBucket
    /\ daily_metrics = NoBucket
    /\ time_metrics = None

(* the filters made timezone-aware, the four empty dictionaries *)
AggStart ==
    /\ UNCHANGED otherThanAgg
    /\ agg_pc = "call"
    /\ start_date' = ensure_timezone_aware(arg_start)
    /\ end_date' = ensure_timezone_aware(arg_end)
    /\ yearly_metrics' = NoBucket
    /\ monthly_metrics' = NoBucket
    /\ weekly_metrics' = NoBucket
    /\ daily_metrics' = NoBucket
    /\ agg_i' = 1
    /\ agg_pc' = "loop"
    /\ UNCHANGED <<now, argVars, time_metrics>>

(* one issue of the loop *)
AggIssue ==
    /\ UNCHANGED otherThanAgg
    /\ agg_pc = "loop"
    /\ agg_i <= Len(issues)
    /\ \E n \in NowSet :
        /\ n >= now
        /\ now' = n
        /\ LET b == AggregateIssue(<<yearly_metrics, monthly_metrics, weekly_metrics,
                                     daily_metrics>>,
                                   issues[agg_i], start_date, end_date, n)
           IN  /\ yearly_metrics' = b[1]
               /\ monthly_metrics' = b[2]
               /\ weekly_metrics' = b[3]
               /\ daily_metrics' = b[4]
    /\ agg_i' = agg_i + 1
    /\ UNCHANGED <<argVars, agg_pc, start_date, end_date, time_metrics>>

(* after the loop: the four sorted result lists *)
AggReturn ==
    /\ UNCHANGED otherThanAgg
    /\ agg_pc = "loop"
    /\ agg_i > Len(issues)
    /\ time_metrics' = Some(AggregateResults(<<yearly_metrics, monthly_metrics,
                                               weekly_metrics, daily_metrics>>))
    /\ agg_pc' = "done"
    /\ UNCHANGED <<now, argVars, agg_i, start_date, end_date, yearly_metrics,
                   monthly_metrics, weekly_metrics, daily_metrics>>

NextAgg ==
    \/ AggStart
    \/ AggIssue
    \/ AggReturn

SpecAgg == InitAgg /\ [][NextAgg]_vars

----------------------------------------------------------------------------
(* calculate_averages, called on a list of per-issue metrics *)

InitAvg ==
    /\ TicketIdle /\ ArgsIdle /\ AggIdle /\ ApiIdle
    /\ now = FirstNow
    /\ metrics_list \in MetricLists
    /\ averages = None

CalculateAverages ==
    /\ averages = None
    /\ averages' = Some(calculate_averages(metrics_list))
    /\ UNCHANGED <<now, ticketVars, argVars, aggVars, apiVars, metrics_list>>

NextAvg == CalculateAverages

SpecAvg == InitAvg /\ [][NextAvg]_vars

----------------------------------------------------------------------------
(* get_project_metrics and get_filtered_project_metrics; the client returns  *)
(* the search result `issues`, issue_data_list is its handled prefix         *)

otherThanApi == <<ticketVars, aggVars, avgVars>>

InitApi ==
    /\ TicketIdle /\ AggIdle /\ AvgIdle
    /\ now = FirstNow
    /\ issues \in IssueLists
    /\ handler \in {"project", "filtered"}
    \* the search of get_project_metrics is for issues that changed to Done
    /\ handler = "project" =>
          \A i \in 1..Len(issues) : ~IsNone(calculate_lead_time(issues[i]))
    /\ arg_start \in (IF handler = "filtered" THEN StartArgs ELSE {None})
    /\ arg_end \in (IF handler = "filtered" THEN EndArgs ELSE {None})
    /\ period \in (IF handler = "filtered" THEN PeriodParams ELSE {"all"})
    /\ api_pc = "fetch"
    /\ results = <<>>
    /\ summary = None
    /\ response = None

(* one issue of the loop over the search result *)
ApiTicket ==
    /\ UNCHANGED otherThanApi
    /\ api_pc = "fetch"
    /\ Len(results) < Len(issues)
    /\ \E n \in NowSet :
        /\ n >= now
        /\ now' = n
        /\ results' = Append(results, TicketMetrics(issues[Len(results) + 1], n))
    /\ UNCHANGED <<argVars, handler, period, api_pc, summary, response>>

(* get_project_metrics after the loop *)
ProjectReturn ==
    /\ UNCHANGED otherThanApi
    /\ handler = "project"
    /\ api_pc = "fetch"
    /\ Len(results) = Len(issues)
    /\ summary' = Some(ProjectSummary(results))
    /\ response' = Some([tickets |-> results, summary |-> ProjectSummary(results),
                         time_based_metrics |-> None])
    /\ api_pc' = "done"
    /\ UNCHANGED <<now, argVars, handler, period, results>>

(* get_filtered_project_metrics after the loop: the summary *)
FilteredSummarize ==
    /\ UNCHANGED otherThanApi
    /\ handler = "filtered"
    /\ api_pc = "fetch"
    /\ Len(results) = Len(issues)
    /\ summary' = Some(FilteredSummary(results))
    /\ api_pc' = "periods"
    /\ UNCHANGED <<now, argVars, handler, period, results, response>>

(* the time-based metrics, if requested, and the response *)
FilteredReturn ==
    /\ UNCHANGED otherThanApi
    /\ handler = "filtered"
    /\ api_pc = "periods"
    /\ \E n \in NowSet :
        /\ n >= now
        /\ now' = IF period # "all" /\ issues # <<>> THEN n ELSE now
        /\ response' =
              Some([tickets |-> results, summary |-> Val(summary),
                    time_based_metrics |->
                       IF period # "all" /\ issues # <<>>
                       THEN Some(aggregate_metrics_by_period(
                                    issues, ensure_timezone_aware(arg_start),
                                    ensure_timezone_aware(arg_end), n))
                       ELSE None])
    /\ api_pc' = "done"
    /\ UNCHANGED <<argVars, handler, period, results, summary>>

NextApi ==
    \/ ApiTicket
    \/ ProjectReturn
    \/ FilteredSummarize
    \/ FilteredReturn

SpecApi == InitApi /\ [][NextApi]_vars

----------------------------------------------------------------------------
(* Vocabulary of the properties: the status events of a history list *)

(* the events of a list of histories, in order: [at, item] per item *)
RECURSIVE EventsOfItems(_, _)
EventsOfItems(items, at) ==
    IF items = <<>> THEN <<>>
    ELSE <<[at |-> at, item |-> Head(items)]>> \o EventsOfItems(Tail(items), at)

RECURSIVE Events(_)
Events(hs) ==
    IF hs = <<>> THEN <<>>
    ELSE EventsOfItems(Head(hs).items, Head(hs).created) \o Events(Tail(hs))

At(e) == Instant(parse_jira_datetime(e.at))

IsStatus(e) == e.item.field = "status"

EntersProgress(e) == IsStatus(e) /\ e.item.toString = "In Progress"
LeavesProgress(e) ==
    IsStatus(e) /\ e.item.toString # "In Progress" /\ e.item.fromString = "In Progress"

ReviewNames == {"In Review", "In review", " In review"}

EntersReview(e) == IsStatus(e) /\ e.item.toString \in ReviewNames
LeavesReview(e) ==
    IsStatus(e) /\ e.item.toString \notin ReviewNames /\ e.item.fromString \in ReviewNames

ReachesDone(e) == IsStatus(e) /\ e.item.toString = "Done"

(* the positions of a sequence that satisfy a test *)
Where(es, Test(_)) == {i \in 1..Len(es) : Test(es[i])}

Min(S) == CHOOSE x \in S : \A y \in S : x <= y
Max(S) == CHOOSE x \in S : \A y \in S : x >= y

(* the list the running calculation iterates over is in non-decreasing order *)
(* of the instants                                                           *)
InInstantOrder(hs) ==
    \A i, j \in 1..Len(hs) :
        i < j => Instant(parse_jira_datetime(hs[i].created))
                   <= Instant(parse_jira_datetime(hs[j].created))

(* the entries of hs with timestamp string t, in order *)
WithStamp(hs, t) == SelectSeq(hs, LAMBDA h : h.created = t)

Occurrences(hs, h) == Cardinality({i \in 1..Len(hs) : hs[i] = h})

(* out is src rearranged, entries with equal timestamps in their source order *)
StableRearrangement(out, src) ==
    /\ Len(out) = Len(src)
    /\ \A i \in 1..Len(src) : Occurrences(out, src[i]) = Occurrences(src, src[i])
    /\ \A i \in 1..Len(src) :
          WithStamp(out, src[i].created) = WithStamp(src, src[i].created)

InLoop == pc \in {"progress", "review"}

----------------------------------------------------------------------------
(* C1: calculate_time_in_progress and calculate_time_in_review process the   *)
(* history entries of an issue in non-decreasing order of their timestamp    *)
(* instants, whatever the source order and whatever UTC offset each string   *)
(* carries; entries with equal timestamps keep their source order.           *)
C1_ProcessedInInstantOrder ==
    InLoop => /\ InInstantOrder(histories)
              /\ StableRearrangement(histories, issue.histories)

(* what the code does keep: the order of the timestamp strings *)
C1_ProcessedInStringOrder ==
    InLoop => /\ \A i, j \in 1..Len(histories) :
                    i < j => ~StrLess(histories[j].created, histories[i].created)
              /\ StableRearrangement(histories, issue.histories)

(* a timestamp string sorted after one that denotes a later instant *)
C1_Misordered ==
    /\ InLoop
    /\ ~InInstantOrder(histories)

----------------------------------------------------------------------------
(* the events the running loop has processed *)
Processed == Events(SubSeq(histories, 1, idx - 1))

(* the first entry after the last exit among the processed events, if any *)
OpenedAt(es, Enters(_), Leaves(_)) ==
    LET lastExit == Max(Where(es, Leaves) \cup {0})
        later    == {i \in Where(es, Enters) : i > lastExit}
    IN  IF later = {} THEN None ELSE Some(parse_jira_datetime(es[Min(later)].at))

(* every status item of the history is an entry, and there is one *)
OnlyEnters(h, Enters(_)) ==
    LET es == Events(<<h>>)
    IN  /\ Where(es, Enters) # {}
        /\ \A i \in 1..Len(es) : IsStatus(es[i]) => Enters(es[i])

C2_MeasuredFromFirstEntry ==
    /\ (pc = "progress" /\ ~IsNone(in_progress_start))
          => in_progress_start = OpenedAt(Processed, EntersProgress, LeavesProgress)
    /\ (pc = "review" /\ ~IsNone(in_review_start))
          => in_review_start = OpenedAt(Processed, EntersReview, LeavesReview)

C2_ReentryStep ==
    /\ (/\ pc = "progress" /\ idx <= Len(histories)
        /\ ~IsNone(in_progress_start)
        /\ OnlyEnters(histories[idx], EntersProgress))
          => /\ in_progress_start' = in_progress_start
             /\ total_time_seconds' = total_time_seconds
    /\ (/\ pc = "review" /\ idx <= Len(histories)
        /\ ~IsNone(in_review_start)
        /\ OnlyEnters(histories[idx], EntersReview))
          => /\ in_review_start' = in_review_start
             /\ total_time_seconds' = total_time_seconds

(* C2: in the interval accumulator a status event whose toStatus is the      *)
(* target, met while the issue is already inside the target status, changes  *)
(* neither the interval start nor the total; an open visit is therefore      *)
(* measured from its first entry event and not from a later duplicate.       *)
C2_DuplicateEntryIsNoOp == []C2_MeasuredFromFirstEntry /\ [][C2_ReentryStep]_vars

(* a duplicate entry at a later time has been processed and left the start alone *)
C2_DuplicateSeen ==
    /\ pc = "progress"
    /\ idx > 2
    /\ OnlyEnters(histories[idx - 1], EntersProgress)
    /\ ~IsNone(in_progress_start)
    /\ DtLess(Val(in_progress_start), parse_jira_datetime(histories[idx - 1].created))

----------------------------------------------------------------------------
(* exactly one entry e and one exit x, the exit after the entry *)
CleanPair(es, Enters(_), Leaves(_)) ==
    /\ Cardinality(Where(es, Enters)) = 1
    /\ Cardinality(Where(es, Leaves)) = 1
    /\ LET e == Min(Where(es, Enters))
           x == Min(Where(es, Leaves))
       IN  \/ At(es[e]) < At(es[x])
           \/ (es[e].at = es[x].at /\ e < x)

(* seconds from the entry to the exit of a clean pair *)
PairSeconds(es, Enters(_), Leaves(_)) ==
    At(es[Min(Where(es, Leaves))]) - At(es[Min(Where(es, Enters))])

C3_ProgressPair ==
    LET es == Events(issue.histories)
    IN  (ticket.time_in_progress_hours # None
            /\ CleanPair(es, EntersProgress, LeavesProgress))
        => Val(ticket.time_in_progress_hours)
              = Rat(PairSeconds(es, EntersProgress, LeavesProgress), 3600)

C3_ReviewPair ==
    LET es == Events(issue.histories)
        d  == PairSeconds(es, EntersReview, LeavesReview)
    IN  (ticket.time_in_review_hours # None
            /\ CleanPair(es, EntersReview, LeavesReview))
        => Val(ticket.time_in_review_hours)
              = IF d >= 3600 THEN Rat(d, 3600) ELSE Rat(d, 60)

(* C3: for an issue whose status events hold exactly one entry into a target *)
(* status followed by exactly one exit from it, calculate_time_in_progress   *)
(* returns exactly (exit - entry) in hours and calculate_time_in_review the  *)
(* same duration, in hours from 3600 seconds on and in minutes below,        *)
(* whatever the evaluation instant and the other events of the history.      *)
C3_CleanPairIsExact == C3_ProgressPair /\ C3_ReviewPair

(* the same statement for the logs whose string order is their instant order *)
C3_ExactWhenOrdersAgree ==
    InInstantOrder(SortedByCreated(issue.histories)) => C3_CleanPairIsExact

----------------------------------------------------------------------------
(* C4: calculate_lead_time returns null if and only if no status event of    *)
(* the history has toStatus "Done"; otherwise it returns the timestamp of    *)
(* the first such event in source order minus the creation instant, in hours *)
C4_LeadTime ==
    pc = "done" =>
        LET es   == Events(issue.histories)
            done == Where(es, ReachesDone)
        IN  /\ IsNone(ticket.lead_time_hours) <=> done = {}
            /\ done # {} =>
                  ticket.lead_time_hours =
                      Some(Rat(At(es[Min(done)])
                                 - Instant(parse_jira_datetime(issue.created)), 3600))

(* a lead time taken from the first "Done" of the source order although a    *)
(* later entry of the log carries an earlier "Done", after a non-status item *)
(* that names "Done"                                                         *)
C4_FirstDoneInSourceOrder ==
    LET es   == Events(issue.histories)
        done == Where(es, ReachesDone)
    IN  /\ pc = "done"
        /\ ~IsNone(ticket.lead_time_hours)
        /\ \E j \in done : At(es[j]) < At(es[Min(done)])
        /\ \E k \in 1..Len(es) : k < Min(done) /\ es[k].item = ItemLabel

----------------------------------------------------------------------------
EnteredNeverLeft(es) ==
    /\ Where(es, EntersProgress) # {}
    /\ Where(es, LeavesProgress) = {}

C5_AtLeastSinceEntry ==
    LET es == Events(issue.histories)
    IN  (pc = "review_call" /\ EnteredNeverLeft(es))
        => \A e \in Where(es, EntersProgress) :
              RatLeq(Rat(now - At(es[e]), 3600), Val(ticket.time_in_progress_hours))

C5_Monotone ==
    EnteredNeverLeft(Events(issue.histories))
    => \A n1, n2 \in NowSet :
          n1 <= n2 => RatLeq(calculate_time_in_progress(issue, n1),
                             calculate_time_in_progress(issue, n2))

(* C5: for an issue that entered "In Progress" and never left it,            *)
(* calculate_time_in_progress is at least the time elapsed from that entry   *)
(* to the evaluation instant, and does not decrease as that instant advances *)
C5_OpenInterval == C5_AtLeastSinceEntry /\ C5_Monotone

(* the same statement for the logs whose string order is their instant order *)
C5_HoldsWhenOrdersAgree ==
    InInstantOrder(SortedByCreated(issue.histories)) => C5_OpenInterval

----------------------------------------------------------------------------
(* Vocabulary of the aggregation properties *)

Buckets == <<yearly_metrics, monthly_metrics, weekly_metrics, daily_metrics>>

ResultList(p) ==
    CASE p = 1 -> Val(time_metrics).yearly
      [] p = 2 -> Val(time_metrics).monthly
      [] p = 3 -> Val(time_metrics).weekly
      [] p = 4 -> Val(time_metrics).daily

(* how often a ticket key occurs in a list of metrics *)
TimesIn(list, key) == Cardinality({i \in 1..Len(list) : list[i].ticket_key = key})

(* the keys of dictionary p under which a ticket is filed *)
FiledUnder(p, key) == {k \in DOMAIN Buckets[p] : TimesIn(Buckets[p][k], key) > 0}

(* the timestamp of the first status event to "Done" of the source order *)
CompletionOf(iss) ==
    LET es   == Events(iss.histories)
        done == Where(es, ReachesDone)
    IN  IF done = {} THEN None ELSE Some(parse_jira_datetime(es[Min(done)].at))

(* the instant a filter denotes: a naive filter is read as UTC *)
FilterInstant(f) == Instant([f EXCEPT !.off = IF f.aware THEN f.off ELSE 0])

InClosedRange(iss) ==
    /\ IsNone(arg_start) \/ FilterInstant(Val(arg_start)) <= Instant(Val(CompletionOf(iss)))
    /\ IsNone(arg_end) \/ Instant(Val(CompletionOf(iss))) <= FilterInstant(Val(arg_end))

(* the positions of the issues the loop has handled *)
Handled == 1..(agg_i - 1)

Included == {j \in Handled : ~IsNone(CompletionOf(issues[j])) /\ InClosedRange(issues[j])}

CompletionKey(iss, p) == format_period_key(Val(CompletionOf(iss)), PeriodTypes[p])
CreationKey(iss, p) == format_period_key(parse_jira_datetime(iss.created), PeriodTypes[p])

AggRunning == agg_pc \in {"loop", "done"}

----------------------------------------------------------------------------
(* C6: for each of the four granularities every input issue is counted in at *)
(* most one bucket, the one keyed by its completion instant (not by its      *)
(* creation instant), and an issue with no transition to "Done" is counted   *)
(* in no bucket, even with non-zero progress or review time.                 *)
C6_OneBucketByCompletion ==
    AggRunning =>
        /\ \A j \in Handled : \A p \in 1..4 :
              LET filed == FiledUnder(p, issues[j].key)
              IN  /\ Cardinality(filed) <= 1
                  /\ IsNone(CompletionOf(issues[j])) => filed = {}
                  /\ \A k \in filed :
                        /\ k = CompletionKey(issues[j], p)
                        /\ TimesIn(Buckets[p][k], issues[j].key) = 1
        /\ agg_pc = "done" =>
              \A p \in 1..4 : \A i \in 1..Len(ResultList(p)) :
                  ResultList(p)[i].averages.ticket_count =
                      Cardinality({j \in Handled :
                                      ResultList(p)[i].period \in FiledUnder(p, issues[j].key)})

(* the result counts an issue under its completion day, which is not its     *)
(* creation day, and leaves out an unfinished issue that has progress time   *)
C6_CountedOnceLeftOut ==
    /\ agg_pc = "done"
    /\ \E j \in Handled :
          /\ FiledUnder(4, issues[j].key) # {}
          /\ CompletionKey(issues[j], 4) # CreationKey(issues[j], 4)
    /\ \E j \in Handled :
          /\ IsNone(CompletionOf(issues[j]))
          /\ RatLess(Zero, calculate_time_in_progress(issues[j], now))

----------------------------------------------------------------------------
(* C7: each of the four lists aggregate_metrics_by_period returns is in      *)
(* strictly ascending lexicographic order of the period keys, with exactly   *)
(* one entry per distinct key and no entry for a key without a member issue. *)
C7_ListsSortedByKey ==
    agg_pc = "done" =>
        \A p \in 1..4 :
            LET l == ResultList(p)
            IN  /\ \A i \in 1..(Len(l) - 1) : LexLess(l[i].period, l[i + 1].period)
                /\ {l[i].period : i \in 1..Len(l)}
                      = {CompletionKey(issues[j], p) : j \in Included}
                /\ \A i \in 1..Len(l) : l[i].averages.ticket_count >= 1

(* two weeks in the weekly list, met in descending order in the input *)
C7_TwoPeriodsOutOfOrder ==
    /\ agg_pc = "done"
    /\ Len(ResultList(3)) = 2
    /\ Included = {1, 2}
    /\ LexLess(CompletionKey(issues[2], 3), CompletionKey(issues[1], 3))

----------------------------------------------------------------------------
(* C8: with a start and/or end filter a completed issue is included if and   *)
(* only if its completion instant lies in the closed range [start, end]; an  *)
(* absent bound does not restrict.                                           *)
C8_ClosedRange ==
    agg_pc = "done" =>
        \A j \in Handled :
            ~IsNone(CompletionOf(issues[j])) =>
                IF InClosedRange(issues[j])
                THEN \A p \in 1..4 : FiledUnder(p, issues[j].key) # {}
                ELSE \A p \in 1..4 : FiledUnder(p, issues[j].key) = {}

(* one issue completed exactly at the start filter and one exactly at the    *)
(* end filter, both included                                                 *)
C8_BothBoundsIncluded ==
    /\ agg_pc = "done"
    /\ ~IsNone(arg_start) /\ ~IsNone(arg_end)
    /\ \E j \in Handled :
          /\ Instant(Val(CompletionOf(issues[j]))) = FilterInstant(Val(arg_start))
          /\ FiledUnder(4, issues[j].key) # {}
    /\ \E j \in Handled :
          /\ Instant(Val(CompletionOf(issues[j]))) = FilterInstant(Val(arg_end))
          /\ FiledUnder(4, issues[j].key) # {}

(* issues left out on either side of the range, one bound being naive *)
C8_LeftOutBothSides ==
    /\ agg_pc = "done"
    /\ \E j \in Handled :
          /\ ~IsNone(arg_start) /\ ~Val(arg_start).aware
          /\ ~IsNone(CompletionOf(issues[j]))
          /\ Instant(Val(CompletionOf(issues[j]))) < FilterInstant(Val(arg_start))
          /\ FiledUnder(4, issues[j].key) = {}
    /\ \E j \in Handled :
          /\ ~IsNone(arg_end)
          /\ ~IsNone(CompletionOf(issues[j]))
          /\ Instant(Val(CompletionOf(issues[j]))) > FilterInstant(Val(arg_end))
          /\ FiledUnder(4, issues[j].key) = {}

----------------------------------------------------------------------------
(* the positions of a metrics list whose value of a field is neither null    *)
(* nor zero                                                                  *)
Counting(ms, field) ==
    {i \in 1..Len(ms) : ms[i][field] # None /\ ms[i][field] # Some(Zero)}

RECURSIVE SumAt(_, _, _)
SumAt(ms, field, at) ==
    IF at = {} THEN Zero
    ELSE LET i == Min(at)
         IN  RatAdd(Val(ms[i][field]), SumAt(ms, field, at \ {i}))

(* the mean over those positions, 0 when there are none *)
MeanOf(ms, field) ==
    IF Counting(ms, field) = {} THEN Zero
    ELSE RatDivInt(SumAt(ms, field, Counting(ms, field)), Cardinality(Counting(ms, field)))

(* C9 as stated: calculate_averages returns ticket_count equal to the list   *)
(* length and, for each of the three metrics independently, the mean over    *)
(* the records whose value is non-null and non-zero (0 when there are none); *)
(* the empty list yields count 0 and averages 0.                             *)
C9_ExactMeans ==
    ~IsNone(averages) =>
        /\ Val(averages).ticket_count = Len(metrics_list)
        /\ Val(averages).avg_time_in_progress_hours
              = MeanOf(metrics_list, "time_in_progress_hours")
        /\ Val(averages).avg_time_in_review_hours
              = MeanOf(metrics_list, "time_in_review_hours")
        /\ Val(averages).avg_lead_time_hours = MeanOf(metrics_list, "lead_time_hours")

(* C9, amended: each of the three averages is that mean rounded to two       *)
(* decimal places; the count is the list length; the empty list yields count *)
(* 0 and averages 0.                                                         *)
C9_RoundedMeans ==
    ~IsNone(averages) =>
        /\ Val(averages).ticket_count = Len(metrics_list)
        /\ Val(averages).avg_time_in_progress_hours
              = Round2(MeanOf(metrics_list, "time_in_progress_hours"))
        /\ Val(averages).avg_time_in_review_hours
              = Round2(MeanOf(metrics_list, "time_in_review_hours"))
        /\ Val(averages).avg_lead_time_hours
              = Round2(MeanOf(metrics_list, "lead_time_hours"))
        /\ metrics_list = <<>> =>
              /\ Val(averages).ticket_count = 0
              /\ Val(averages).avg_time_in_progress_hours = Zero
              /\ Val(averages).avg_time_in_review_hours = Zero
              /\ Val(averages).avg_lead_time_hours = Zero

(* two records, one without lead time and with zero review time: the lead    *)
(* and review averages are over one record, the progress average over two    *)
C9_DenominatorsDiffer ==
    /\ ~IsNone(averages)
    /\ Len(metrics_list) = 2
    /\ Cardinality(Counting(metrics_list, "time_in_progress_hours")) = 2
    /\ Cardinality(Counting(metrics_list, "time_in_review_hours")) = 1
    /\ Cardinality(Counting(metrics_list, "lead_time_hours")) = 1
    /\ metrics_list[1].lead_time_hours = None
    /\ Val(averages).avg_lead_time_hours # MeanOf(metrics_list, "lead_time_hours")

----------------------------------------------------------------------------
(* C10: the summary of get_project_metrics is the whole-population aggregate *)
(* of its tickets: each of the three averages equals the one                 *)
(* calculate_averages and the filtered summary produce for the same tickets, *)
(* the sum of the non-null, non-zero values divided by their number.         *)
C10_ProjectSummaryIsAggregate ==
    (api_pc = "done" /\ handler = "project") =>
        LET got  == Val(response).summary
            avg  == calculate_averages(Val(response).tickets)
            filt == FilteredSummary(Val(response).tickets)
        IN  /\ got.avg_time_in_progress_hours = avg.avg_time_in_progress_hours
            /\ got.avg_time_in_review_hours = avg.avg_time_in_review_hours
            /\ got.avg_lead_time_hours = avg.avg_lead_time_hours
            /\ got.avg_time_in_progress_hours = filt.avg_time_in_progress_hours
            /\ got.avg_time_in_review_hours = filt.avg_time_in_review_hours
            /\ got.avg_lead_time_hours = filt.avg_lead_time_hours

AvgFieldOf(f) ==
    CASE f = "time_in_progress_hours" -> "avg_time_in_progress_hours"
      [] f = "time_in_review_hours"   -> "avg_time_in_review_hours"
      [] f = "lead_time_hours"        -> "avg_lead_time_hours"

(* what get_project_metrics does return: the same sums divided by the number *)
(* of tickets                                                                *)
C10_DividesByTicketCount ==
    (api_pc = "done" /\ handler = "project" /\ results # <<>>) =>
        \A f \in {"time_in_progress_hours", "time_in_review_hours", "lead_time_hours"} :
            Val(response).summary[AvgFieldOf(f)]
                = Round2(RatDivInt(SumAt(results, f, Counting(results, f)), Len(results)))

----------------------------------------------------------------------------
(* the time-based metrics of a finished call of the filtered handler *)
FilteredDone == api_pc = "done" /\ handler = "filtered"

Breakdown == Val(response).time_based_metrics

(* the period types other than the requested one *)
OtherPeriods == {PeriodTypes[p] : p \in 1..4} \ {period}

(* C11: in get_filtered_project_metrics the period breakdown is present only *)
(* when a period other than "all" is requested, and when present only the    *)
(* list of the requested period is populated: the lists of the other three   *)
(* period types are empty.                                                   *)
C11_OnlyRequestedList ==
    FilteredDone =>
        /\ ~IsNone(Breakdown) => period # "all"
        /\ ~IsNone(Breakdown) => \A p \in OtherPeriods : Val(Breakdown)[p] = <<>>

(* the part of C11 that the handler keeps: the breakdown is present exactly  *)
(* when a period other than "all" is requested and the search found issues   *)
C11_PresentWhenRequested ==
    FilteredDone => (~IsNone(Breakdown) <=> (period # "all" /\ issues # <<>>))

(* what the handler returns when the breakdown is present: the four lists of *)
(* aggregate_metrics_by_period, whichever period was requested               *)
C11_SameForEveryPeriod ==
    (FilteredDone /\ ~IsNone(Breakdown)) =>
        \E n \in NowSet :
            Val(Breakdown) = aggregate_metrics_by_period(issues, arg_start, arg_end, n)

(* one period requested, the lists of the other three populated as well *)
C11_OtherListsPopulated ==
    /\ FilteredDone
    /\ period = "weekly"
    /\ ~IsNone(Breakdown)
    /\ Val(Breakdown).weekly # <<>>
    /\ \A p \in OtherPeriods : Val(Breakdown)[p] # <<>>

----------------------------------------------------------------------------
(* the two checks of the loop of aggregate_metrics_by_period that skip an    *)
(* issue before the date filter                                              *)
SkippedNoMetrics(iss) == IsNone(calculate_lead_time(iss))

SkippedNoCompletion(iss) ==
    ~SkippedNoMetrics(iss) /\ IsNone(get_issue_completion_date(iss))

(* the positions of the status events to "Done" of an issue's log *)
DoneEvents(iss) == Where(Events(iss.histories), ReachesDone)

(* C12: calculate_lead_time and get_issue_completion_date select the same    *)
(* history entry: lead time is null exactly when the completion instant is   *)
(* null, and otherwise lead time in hours is (completion - creation) / 3600; *)
(* so in aggregate_metrics_by_period the issues skipped for lack of metrics  *)
(* are exactly those with no status transition to "Done", and the separate   *)
(* completion check never skips an issue that passed the lead-time check.    *)
C12_SameDoneEntry ==
    AggRunning =>
        \A j \in Handled :
            LET iss  == issues[j]
                lead == calculate_lead_time(iss)
                comp == get_issue_completion_date(iss)
            IN  /\ IsNone(lead) <=> IsNone(comp)
                /\ comp = CompletionOf(iss)
                /\ ~IsNone(lead) =>
                      lead = Some(Rat(Instant(Val(comp))
                                        - Instant(get_issue_creation_date(iss)), 3600))
                /\ SkippedNoMetrics(iss) <=> DoneEvents(iss) = {}
                /\ ~SkippedNoCompletion(iss)
                /\ (SkippedNoMetrics(iss) \/ SkippedNoCompletion(iss))
                      => \A p \in 1..4 : FiledUnder(p, iss.key) = {}
                /\ (~SkippedNoMetrics(iss) /\ InClosedRange(iss))
                      => \A p \in 1..4 : FiledUnder(p, iss.key) # {}

(* the loop has handled an issue with two transitions to "Done", the later   *)
(* one first in the log, which it filed, and an issue whose only "Done" is a *)
(* label, with progress time, which it skipped                               *)
C12_RedoneAndRelabelled ==
    /\ agg_pc = "done"
    /\ \E j \in Handled :
          /\ Cardinality(DoneEvents(issues[j])) = 2
          /\ FiledUnder(4, issues[j].key) # {}
    /\ \E j \in Handled :
          /\ \E i \in 1..Len(Events(issues[j].histories)) :
                Events(issues[j].histories)[i].item.toString = "Done"
          /\ DoneEvents(issues[j]) = {}
          /\ SkippedNoMetrics(issues[j])

----------------------------------------------------------------------------
(* status events with the target status on either side *)
TouchesProgress(e) ==
    IsStatus(e) /\ (e.item.toString = "In Progress" \/ e.item.fromString = "In Progress")

TouchesReview(e) ==
    IsStatus(e) /\ (e.item.toString \in ReviewNames \/ e.item.fromString \in ReviewNames)

(* the interval start after the events es: null unless some event touches    *)
(* the target and the most recent such event enters it, and then the         *)
(* timestamp of the first entry after the last exit                          *)
StartAfter(es, Touches(_), Enters(_), Leaves(_)) ==
    LET touching == Where(es, Touches)
    IN  IF touching # {} /\ Enters(es[Max(touching)])
        THEN LET lastExit == Max(Where(es, Leaves) \cup {0})
                 entries  == {i \in Where(es, Enters) : i > lastExit}
             IN  Some(parse_jira_datetime(es[Min(entries)].at))
        ELSE None

C13_StartOfInterval ==
    /\ pc = "progress" =>
          in_progress_start
              = StartAfter(Processed, TouchesProgress, EntersProgress, LeavesProgress)
    /\ pc = "review" =>
          in_review_start = StartAfter(Processed, TouchesReview, EntersReview, LeavesReview)

(* no event of the history touches the target *)
Untouched(h, Touches(_)) == Where(Events(<<h>>), Touches) = {}

C13_IgnoredStep ==
    /\ (pc = "progress" /\ idx <= Len(histories)
            /\ Untouched(histories[idx], TouchesProgress))
          => /\ in_progress_start' = in_progress_start
             /\ total_time_seconds' = total_time_seconds
    /\ (pc = "review" /\ idx <= Len(histories)
            /\ Untouched(histories[idx], TouchesReview))
          => /\ in_review_start' = in_review_start
             /\ total_time_seconds' = total_time_seconds

(* C13: after any prefix of an issue's events the interval start is non-null *)
(* exactly when some processed status event has the target as toStatus or    *)
(* fromStatus and the most recent such event has it as toStatus; when        *)
(* non-null it is the timestamp of the first entry event after the last exit *)
(* event (or after the start of the log); events of a field other than       *)
(* "status", or with the target on neither side, leave the interval start    *)
(* and the total unchanged.                                                  *)
C13_AccumulatorState == []C13_StartOfInterval /\ [][C13_IgnoredStep]_vars

(* the loop has processed an exit met outside the status, an entry, and then  *)
(* an item of another field that names the target: the start is the entry's  *)
(* timestamp and the total is still zero                                     *)
C13_IgnoredWhileOpen ==
    /\ pc = "progress"
    /\ idx = 4
    /\ LeavesProgress(Processed[1])
    /\ EntersProgress(Processed[2])
    /\ ~IsStatus(Processed[3])
    /\ Processed[3].item.fromString = "In Progress"
    /\ in_progress_start = Some(parse_jira_datetime(Processed[2].at))
    /\ total_time_seconds = 0

(* an entry, an exit and a second entry at another time: the start is the    *)
(* second entry's timestamp                                                  *)
C13_ReopenedAfterExit ==
    /\ pc = "progress"
    /\ idx = 4
    /\ EntersProgress(Processed[1])
    /\ LeavesProgress(Processed[2])
    /\ EntersProgress(Processed[3])
    /\ total_time_seconds > 0
    /\ in_progress_start = Some(parse_jira_datetime(Processed[3].at))
    /\ Processed[3].at # Processed[1].at

====
